---- MODULE Spec2Model ----
(***************************************************************************)
(* Model of sine_lut_gen.py: main() opens the output file, write_header    *)
(* emits the comment block and the array declaration, the generation loop  *)
(* computes one quantized sine sample per index and writes it, the closing *)
(* of the initializer is written, and the lists are handed to the plots.   *)
(*                                                                         *)
(* Numbers.  Voltages (DAC_VREF, SIN_DC, SIN_AMP) are integers in tenths   *)
(* of a volt.  theta counts the increments of 2*pi/N applied so far, and   *)
(* SIN_PHASE counts steps of 2*pi/PhaseDen, so every angle is an exact     *)
(* fraction of a turn.  np.sin is the rational approximation of Bhaskara I *)
(* (exact at 0, 30, 90, 150, 180 degrees, within 0.0017 elsewhere, never   *)
(* beyond [-1, 1]); a real value is a pair <<numerator, denominator>> with *)
(* a positive denominator, and all arithmetic on it is exact.              *)
(***************************************************************************)
EXTENDS Integers, Sequences, FiniteSets

\* ---------------------------------------------------------------- bounds

\* Largest table length of the small configurations.
MaxN == 8
\* Largest table length of the repository's default waveform.
MaxLongN == 34
\* Resolution of the phase grid: SIN_PHASE is a multiple of 2*pi/PhaseDen.
PhaseDen == 4
\* Largest DAC resolution of the wide configurations.
MaxWideRes == 34

\* ------------------------------------------------------ program constants

\* GRAPH_EN, line 45.
GRAPH_EN == TRUE

\* The configuration constants of lines 27..42, fixed for a run.
VARIABLES N, DAC_RES, DAC_VREF, SIN_DC, SIN_AMP, SIN_PHASE

\* The locals of main, the output file and what the plots were given.
VARIABLES pc, i, theta, sin_lut, lut_idx_plt, theta_plt, sin_real_plot,
          out_file, ax1, ax2

config == <<N, DAC_RES, DAC_VREF, SIN_DC, SIN_AMP, SIN_PHASE>>
locals == <<i, theta, sin_lut, lut_idx_plt, theta_plt, sin_real_plot>>
vars == <<config, pc, locals, out_file, ax1, ax2>>

\* ------------------------------------------------------------ arithmetic

Abs(x) == IF x < 0 THEN 0 - x ELSE x

RECURSIVE Gcd(_, _)
Gcd(a, b) == IF b = 0 THEN a ELSE Gcd(b, a % b)

\* Floor division of any two integers, den # 0.
FloorDiv(num, den) ==
    IF den > 0 THEN num \div den ELSE (0 - num) \div (0 - den)

\* int(): the conversion of a real num/den to an integer drops the
\* fractional part, that is, it truncates toward zero.
TruncDiv(num, den) ==
    LET q == Abs(num) \div Abs(den)
    IN  IF (num < 0) = (den < 0) THEN q ELSE 0 - q

\* np.sin of the angle 2*pi*num/den (num >= 0, den > 0), as the pair
\* <<sn, sd>> in lowest terms with sd > 0.  With u the position inside the
\* half turn, sin = 16u(1-u) / (5 - 4u(1-u)), negated in the second half.
Sin(num, den) ==
    LET r  == num % den
        lo == 2 * r < den
        a0 == IF lo THEN 2 * r ELSE 2 * r - den
        g0 == Gcd(den, a0)
        a  == a0 \div g0
        b  == den \div g0
        p  == 16 * a * (b - a)
        q  == 5 * b * b - 4 * a * (b - a)
        g  == Gcd(q, p)
    IN  << (IF lo THEN p ELSE 0 - p) \div g, q \div g >>

\* A sine that is a quarter turn ahead (the cosine).
Cos(num, den) == Sin(4 * num + den, 4 * den)

\* A largest code that is the full power of two.
MaxCodePow(res) == 2 ^ res

\* ( 2**DAC_RES ) - 1, line 121.
MaxCode(res) == (2 ^ res) - 1

\* A signal built on the cosine.
SinRealCos(th) ==
    LET s == Cos(th * PhaseDen + SIN_PHASE * N, N * PhaseDen)
    IN  << SIN_AMP * s[1] + SIN_DC * s[2], s[2] >>

\* A signal evaluated after the angle has been advanced.
SinRealAdvanced(th) ==
    LET s == Sin((th + 1) * PhaseDen + SIN_PHASE * N, N * PhaseDen)
    IN  << SIN_AMP * s[1] + SIN_DC * s[2], s[2] >>

\* Line 118: SIN_AMP * np.sin( theta + SIN_PHASE ) + SIN_DC, in tenths of a
\* volt, at theta = th increments of 2*pi/N.
SinReal(th) ==
    LET s == Sin(th * PhaseDen + SIN_PHASE * N, N * PhaseDen)
    IN  << SIN_AMP * s[1] + SIN_DC * s[2], s[2] >>

\* Quantization that saturates at the ends of the code range.
SinRawClamped(real) ==
    LET x == TruncDiv(MaxCode(DAC_RES) * real[1], real[2] * DAC_VREF)
    IN  IF x < 0 THEN 0 ELSE IF x > MaxCode(DAC_RES) THEN MaxCode(DAC_RES) ELSE x

\* Quantization by floor.
SinRawFloored(real) ==
    IF real[1] = 0 THEN 0
    ELSE FloorDiv(MaxCode(DAC_RES) * real[1], real[2] * DAC_VREF)

\* Line 121: int( (( 2**DAC_RES ) - 1 ) * ( sin_real / DAC_VREF ) ), for
\* DAC_VREF # 0.  A zero signal gives 0 whatever the resolution; the product
\* is formed only for a non-zero signal.
SinRaw(real) ==
    IF real[1] = 0 THEN 0
    ELSE TruncDiv(MaxCode(DAC_RES) * real[1], real[2] * DAC_VREF)

\* ------------------------------------------------------------ the file

\* One write to out_file.  kind is "comment" (val: the size in bytes stated),
\* "decl" (val: the element width in bits, aux: the declared length), "nl"
\* (the line break and indent), "num" (val: the number, aux: 1 when a
\* comma follows it, 0 when not) or "close" (the line break and "};").
Tok(kind, val, aux) == [kind |-> kind, val |-> val, aux |-> aux]

\* write_c_comment, lines 58..73.
write_c_comment(size_of_element) == << Tok("comment", size_of_element * N, 0) >>

\* write_header, lines 81..93: what it writes; nothing when no branch applies.
write_header ==
    IF DAC_RES <= 8 THEN write_c_comment(1) \o << Tok("decl", 8, N) >>
    ELSE IF DAC_RES <= 16 THEN write_c_comment(2) \o << Tok("decl", 16, N) >>
    ELSE IF DAC_RES <= 32 THEN write_c_comment(4) \o << Tok("decl", 32, N) >>
    ELSE << >>

\* A value line that ends every number with a comma.
WriteValueAllCommas(idx, raw) ==
    (IF 0 = idx % 16 THEN << Tok("nl", 0, 0) >> ELSE << >>)
    \o << Tok("num", raw, 1) >>

\* Lines 134..142: what one iteration writes for index idx and value raw.
WriteValue(idx, raw) ==
    (IF 0 = idx % 16 THEN << Tok("nl", 0, 0) >> ELSE << >>)
    \o << Tok("num", raw, IF idx = N - 1 THEN 0 ELSE 1) >>

\* A conversion that takes 0/0 for 0 and fails only on a non-zero signal.
RaisesOnInfOnly(real) == DAC_VREF = 0 /\ real[1] # 0

\* Line 121 with DAC_VREF = 0: sin_real / DAC_VREF is inf or nan (or the
\* division itself fails), and int() of either raises; in every case the
\* statement ends in an exception.
Raises(real) == DAC_VREF = 0

\* -------------------------------------------------------- configurations

\* The waveforms of the small configurations, in tenths of a volt.
VrefSet == {0 - 20, 0, 20, 25}
DcSet   == {0 - 5, 0, 10, 20}
AmpSet  == {0 - 10, 0, 9, 10, 15}
ResSet  == {1, 2, 8, 12}

\* Lines 102..109: the state of main after its locals are set and the file
\* is opened.
InitMain ==
    /\ pc = "header"
    /\ i = 0
    /\ theta = 0
    /\ sin_lut = << >>
    /\ lut_idx_plt = << >>
    /\ theta_plt = << >>
    /\ sin_real_plot = << >>
    /\ out_file = << >>
    /\ ax1 = << >>
    /\ ax2 = << >>

\* Small tables over every waveform of the sets above.
InitSmall ==
    /\ N \in (0 - 1)..MaxN
    /\ DAC_RES \in ResSet
    /\ DAC_VREF \in VrefSet
    /\ SIN_DC \in DcSet
    /\ SIN_AMP \in AmpSet
    /\ SIN_PHASE \in 0..(PhaseDen - 1)

\* The repository's waveform (lines 30..42: 12 bits, 2.5 V, 1.0 V, 0.9 V,
\* phase 0) over longer tables.
InitLong ==
    /\ N \in (MaxN + 1)..MaxLongN
    /\ DAC_RES = 12
    /\ DAC_VREF = 25
    /\ SIN_DC = 10
    /\ SIN_AMP = 9
    /\ SIN_PHASE = 0

\* Every resolution up to MaxWideRes, with the zero signal.
InitWide ==
    /\ N \in (0 - 1)..3
    /\ DAC_RES \in 1..MaxWideRes
    /\ DAC_VREF \in {0, 25}
    /\ SIN_DC = 0
    /\ SIN_AMP = 0
    /\ SIN_PHASE = 0

Init == InitMain /\ (InitSmall \/ InitLong)

InitW == InitMain /\ InitWide

\* ---------------------------------------------------------------- actions

\* Line 112: write_header( out_file ).
WriteHeader ==
    /\ pc = "header"
    /\ out_file' = out_file \o write_header
    /\ pc' = "loop"
    /\ UNCHANGED <<config, locals, ax1, ax2>>

\* Lines 115..142: one iteration of the generation loop.
LoopIter ==
    /\ pc = "loop"
    /\ i < N
    /\ LET sin_real == SinReal(theta)
       IN  /\ ~ Raises(sin_real)
           /\ LET sin_raw == SinRaw(sin_real)
              IN  /\ theta' = theta + 1
                  /\ sin_lut' = Append(sin_lut, sin_raw)
                  /\ theta_plt' = Append(theta_plt, theta')
                  /\ sin_real_plot' = Append(sin_real_plot, sin_real)
                  /\ lut_idx_plt' = Append(lut_idx_plt, i)
                  /\ out_file' = out_file \o WriteValue(i, sin_raw)
    /\ i' = i + 1
    /\ UNCHANGED <<config, pc, ax1, ax2>>

\* Lines 118..121 when the conversion raises: main ends there, and nothing
\* after line 121 runs.
LoopRaise ==
    /\ pc = "loop"
    /\ i < N
    /\ Raises(SinReal(theta))
    /\ pc' = "raised"
    /\ UNCHANGED <<config, locals, out_file, ax1, ax2>>

\* Lines 144..145, once range( N ) is exhausted.
WriteClose ==
    /\ pc = "loop"
    /\ ~ (i < N)
    /\ out_file' = Append(out_file, Tok("close", 0, 0))
    /\ pc' = "plot"
    /\ UNCHANGED <<config, locals, ax1, ax2>>

\* Lines 147..183: the two plots, given the lists as they are.
Plot ==
    /\ pc = "plot"
    /\ IF GRAPH_EN
         THEN /\ ax1' = << theta_plt, sin_real_plot >>
              /\ ax2' = << lut_idx_plt, sin_lut >>
         ELSE UNCHANGED <<ax1, ax2>>
    /\ pc' = "done"
    /\ UNCHANGED <<config, locals, out_file>>

Next == WriteHeader \/ LoopIter \/ LoopRaise \/ WriteClose \/ Plot

Spec == Init /\ [][Next]_vars

SpecWide == InitW /\ [][Next]_vars

\* ------------------------------------------------------- reading the state

\* The numbers of the initializer, in the order written.
NumToks == SelectSeq(out_file, LAMBDA t : t.kind = "num")

\* The array declarations written.
Decls == SelectSeq(out_file, LAMBDA t : t.kind = "decl")

\* The comment blocks written.
Comments == SelectSeq(out_file, LAMBDA t : t.kind = "comment")

\* How many numbers precede position p of out_file: the index of a number
\* written at p.
NumsBefore(p) == Cardinality({q \in 1..(p - 1) : out_file[q].kind = "num"})

\* The loop and the closing are over.
Finished == pc \in {"plot", "done"}

\* The largest code, written out from the resolution.
TopCode == (2 ^ DAC_RES) - 1

\* The signal at index idx by the closed form: angle idx*(2*pi/N) + phase.
ClosedReal(idx) ==
    LET s == Sin(idx * PhaseDen + SIN_PHASE * N, N * PhaseDen)
    IN  << SIN_AMP * s[1] + SIN_DC * s[2], s[2] >>

\* The scaled value TopCode * (real / DAC_VREF) as X/D with D > 0.
ScaledNum(real) ==
    IF DAC_VREF < 0 THEN 0 - (TopCode * real[1]) ELSE TopCode * real[1]
ScaledDen(real) == real[2] * Abs(DAC_VREF)

\* ------------------------------------------------------------------ C1

\* C1: for a positive table length the loop produces exactly N samples, one
\* per index 0..N-1 in order, and the length declared in the header equals
\* the number of values written into the initializer.
C1_CountAndDeclaredLength ==
    (N > 0 /\ Finished) =>
        /\ Len(sin_lut) = N
        /\ lut_idx_plt = [j \in 1..N |-> j - 1]
        /\ Len(NumToks) = N
        /\ Len(Decls) = 1
        /\ Decls[1].aux = Len(NumToks)

\* ------------------------------------------------------------------ C2

C3_TruncatesTowardZero ==
    \A j \in 1..Len(sin_lut) :
        LET X == ScaledNum(sin_real_plot[j])
            D == ScaledDen(sin_real_plot[j])
            s == sin_lut[j]
        IN  /\ X >= 0 => (s * D <= X /\ X < (s + 1) * D)
            /\ X < 0  => (s * D >= X /\ X > (s - 1) * D)
            /\ Abs(s) * D <= Abs(X)

\* A finished table holding a negative sample whose scaled value is not an
\* integer and a positive sample whose scaled value is not an integer.
C3_Witness ==
    /\ pc = "done"
    /\ \E j \in 1..Len(sin_lut) :
          /\ sin_lut[j] < 0
          /\ sin_lut[j] * ScaledDen(sin_real_plot[j]) # ScaledNum(sin_real_plot[j])
    /\ \E j \in 1..Len(sin_lut) :
          /\ sin_lut[j] > 0
          /\ sin_lut[j] * ScaledDen(sin_real_plot[j]) # ScaledNum(sin_real_plot[j])

\* ------------------------------------------------------------------ C4

\* The scenario: length 4, amplitude 1.0, offset 1.0, phase 0, 2.0 V full
\* scale, 8 bits.
C4_Config ==
    /\ N = 4
    /\ SIN_AMP = 10
    /\ SIN_DC = 10
    /\ SIN_PHASE = 0
    /\ DAC_VREF = 20
    /\ DAC_RES = 8

\* The real values of sin_real_plot are the given tenths of a volt.
RealsAre(volts) ==
    /\ Len(sin_real_plot) = Len(volts)
    /\ \A j \in 1..Len(volts) :
          sin_real_plot[j][1] = volts[j] * sin_real_plot[j][2]

\* C4 as stated: in the scenario the angles are 0, pi/2, pi, 3pi/2 (index i
\* at i quarter turns), the real values 2.0, 1.0, 0.0, 1.0, maxCode 255 and
\* the samples 255, 127, 0, 127.
C4_AsStated ==
    C4_Config =>
        /\ theta = Len(sin_lut)
        /\ TopCode = 255
        /\ pc = "done" => /\ RealsAre(<<20, 10, 0, 10>>)
                          /\ sin_lut = <<255, 127, 0, 127>>

\* C4 amended: in the scenario the angles are 0, pi/2, pi, 3pi/2, the real
\* values 1.0, 2.0, 1.0, 0.0, maxCode 255 and the samples 127, 255, 127, 0.
C4_SineOrder ==
    C4_Config =>
        /\ theta = Len(sin_lut)
        /\ TopCode = 255
        /\ pc = "done" => /\ RealsAre(<<10, 20, 10, 0>>)
                          /\ sin_lut = <<127, 255, 127, 0>>

\* The scenario's run is over, with its four samples.
C4_Witness == C4_Config /\ pc = "done" /\ Len(sin_lut) = 4

\* ------------------------------------------------------------------ C5

\* The element width the claim gives a resolution.
ClaimedBits == IF DAC_RES <= 8 THEN 8 ELSE IF DAC_RES <= 16 THEN 16 ELSE 32

\* C5: write_header always emits one declaration, of 8-bit elements for
\* resolutions up to 8, 16-bit up to 16 and 32-bit for every other one,
\* with the comment stating that many bytes per element.
C5_AlwaysDeclares ==
    pc # "header" =>
        /\ Len(Decls) = 1
        /\ Decls[1].val = ClaimedBits
        /\ Len(Comments) = 1
        /\ Comments[1].val * 8 = ClaimedBits * N

\* ------------------------------------------------------------------ C6

\* A correct configuration: positive full scale, and the whole swing of the
\* signal inside [0, full scale].
CorrectConfig ==
    /\ DAC_VREF > 0
    /\ DAC_RES >= 1
    /\ SIN_DC - Abs(SIN_AMP) >= 0
    /\ SIN_DC + Abs(SIN_AMP) <= DAC_VREF

\* C6: under a correct configuration every sample, at every index and
\* phase, lies in [0, 2^resolutionBits - 1].
C6_InRange ==
    CorrectConfig => \A j \in 1..Len(sin_lut) : 0 <= sin_lut[j] /\ sin_lut[j] <= TopCode

\* A finished correct table that touches both ends of the code range.
C6_Witness ==
    /\ CorrectConfig
    /\ pc = "done"
    /\ N >= 4
    /\ SIN_AMP # 0
    /\ \E j \in 1..N : sin_lut[j] = TopCode
    /\ \E j \in 1..N : sin_lut[j] = 0

\* ------------------------------------------------------------------ C7

\* Offset plus amplitude exceeds a positive full scale.
OverRange == DAC_VREF > 0 /\ SIN_AMP + SIN_DC > DAC_VREF

\* C7 as stated: whenever amplitude + offset exceeds the full scale, the
\* generated sequence of any length and phase holds a sample outside
\* [0, maxCode].
C7_AlwaysSomeOutside ==
    (OverRange /\ N >= 1 /\ Finished) =>
        \E j \in 1..Len(sin_lut) : sin_lut[j] < 0 \/ sin_lut[j] > TopCode

\* C7 amended: when amplitude + offset exceeds the full scale, a sample is
\* above maxCode exactly when its scaled value reaches maxCode + 1 and below
\* 0 exactly when it reaches -1, which need not happen at any index; such a
\* sample is stored and written as computed, and nothing is reported.
C7_UnclampedWhereScaledExceeds ==
    OverRange =>
        /\ pc # "raised"
        /\ Len(NumToks) = Len(sin_lut)
        /\ \A j \in 1..Len(sin_lut) :
              LET X == ScaledNum(sin_real_plot[j])
                  D == ScaledDen(sin_real_plot[j])
              IN  /\ sin_real_plot[j] = ClosedReal(j - 1)
                  /\ (sin_lut[j] > TopCode) <=> (X >= (TopCode + 1) * D)
                  /\ (sin_lut[j] < 0) <=> (X <= 0 - D)
                  /\ NumToks[j].val = sin_lut[j]

\* A finished over-range table with a sample above maxCode in the file.
C7_Witness ==
    /\ OverRange
    /\ pc = "done"
    /\ \E j \in 1..Len(NumToks) : NumToks[j].val > TopCode

\* ------------------------------------------------------------------ C8

\* C8 as stated: no configuration makes the run signal a failure.
C8_NeverRaises == pc # "raised"

\* C8 amended: with length <= 0 the run raises nothing, runs no iteration
\* and writes the closing; with fullScaleVoltage = 0 and length >= 1 it
\* raises at the conversion of the first sample, after the header and before
\* any value or the closing is written; otherwise it raises nothing and
\* ends with the closing written.
C8_RaisesOnlyOnZeroVref ==
    /\ pc = "raised" =>
          /\ DAC_VREF = 0
          /\ N >= 1
          /\ i = 0
          /\ sin_lut = << >>
          /\ \A p \in 1..Len(out_file) : out_file[p].kind \in {"comment", "decl"}
    /\ (DAC_VREF = 0 /\ N >= 1) => (pc \in {"header", "loop", "raised"} /\ i = 0)
    /\ (pc = "loop" /\ N >= 1 /\ i = 0) => (ENABLED LoopRaise <=> DAC_VREF = 0)
    /\ Finished =>
          /\ Len(out_file) >= 1
          /\ out_file[Len(out_file)].kind = "close"
          /\ N <= 0 => sin_lut = << >>
    /\ (pc = "loop" /\ N <= 0) => ENABLED WriteClose

\* The run has raised.
C8_Witness == pc = "raised" /\ DAC_VREF = 0 /\ N >= 1

\* ------------------------------------------------------------------ C9

\* C9: the angle recorded at position i of theta_plt is the angle i*2*pi/N
\* at which sin_real_plot[i] and sin_lut[i] were computed, so the angles
\* handed to the plot start at 0 and stay below 2*pi.
C9_AnglesMatchSamples ==
    /\ \A j \in 1..Len(theta_plt) : theta_plt[j] = j - 1
    /\ (pc = "done" /\ N >= 1) =>
          /\ ax1[1][1] = 0
          /\ \A j \in 1..Len(ax1[1]) : ax1[1][j] < N

\* ------------------------------------------------------------------ C10

\* C10: for N >= 1 the values are written in index order; a line break is
\* written exactly before the values at indices 0, 16, 32, ..., so no line
\* holds more than 16 values; every value but the one at index N-1 is
\* followed by a comma, that one by none; and the closing comes only after
\* all N values.
C10_InitializerLayout ==
    N >= 1 =>
        /\ Len(NumToks) = Len(sin_lut)
        /\ \A j \in 1..Len(NumToks) :
              /\ NumToks[j].val = sin_lut[j]
              /\ NumToks[j].aux = (IF j - 1 = N - 1 THEN 0 ELSE 1)
        /\ \A p \in 1..Len(out_file) :
              /\ out_file[p].kind = "nl" =>
                    /\ p < Len(out_file)
                    /\ out_file[p + 1].kind = "num"
                    /\ NumsBefore(p) % 16 = 0
              /\ (out_file[p].kind = "num" /\ NumsBefore(p) % 16 = 0) =>
                    (p > 1 /\ out_file[p - 1].kind = "nl")
              /\ out_file[p].kind = "num" =>
                    \E q \in 1..(p - 1) :
                        /\ out_file[q].kind = "nl"
                        /\ NumsBefore(p) - NumsBefore(q) < 16
              /\ out_file[p].kind = "close" =>
                    /\ p = Len(out_file)
                    /\ NumsBefore(p) = N
        /\ Finished => out_file[Len(out_file)].kind = "close"

\* A finished table of more than 32 values: three lines broken, the last
\* value without a comma.
C10_Witness ==
    /\ pc = "done"
    /\ N > 32
    /\ Len(SelectSeq(out_file, LAMBDA t : t.kind = "nl")) = 3
    /\ NumToks[N].aux = 0
    /\ NumToks[N - 1].aux = 1

====
